---- MODULE Spec2Model ----
(***************************************************************************)
(* A model of spliceai/utils.py: the Annotator's gene lookup, chromosome   *)
(* name normalisation, one-hot encoding, get_delta_scores and              *)
(* calculate_importance_score.                                             *)
(*                                                                         *)
(* Text is a sequence of one-character strings (<<"c","h","r","1">> is the *)
(* Python string 'chr1'); Ord gives a character's byte value.  Model       *)
(* probabilities are fixed-point integers, one unit = 1/500; a single      *)
(* model's output is a multiple of 5 units, so the mean over the five      *)
(* models of the ensemble is exact.                                        *)
(***************************************************************************)
EXTENDS Integers, Sequences, FiniteSets, TLC

VARIABLES genes, chroms, strands, tx_starts, tx_ends, models, pc, call, ret

vars == <<genes, chroms, strands, tx_starts, tx_ends, models, pc, call, ret>>

annVars == <<genes, chroms, strands, tx_starts, tx_ends, models>>

\* An attribute of a record that may be None: None, or Some(v) holding the value v.
None == <<>>

Some(v) == <<v>>

Val(o) == o[1]

\* no exception raised, no warning logged
NoExc == "none"

NoLog == "none"

----------------------------------------------------------------------------
(* Python built-ins used by the source. *)

Max2(a, b) == IF a >= b THEN a ELSE b

Min2(a, b) == IF a <= b THEN a ELSE b

\* s[i:j] for 0 <= i, 0 <= j (0-based, end exclusive, clipped to len(s))
Slice(s, i, j) == SubSeq(s, i + 1, Min2(j, Len(s)))

\* s[i:]
SliceFrom(s, i) == SubSeq(s, i + 1, Len(s))

\* c * n for a one-character string c
Repeat(c, n) == [k \in 1..n |-> c]

\* byte value of a character (ord)
Ord(c) ==
    CASE c = "A" -> 65 [] c = "B" -> 66 [] c = "C" -> 67 [] c = "G" -> 71
      [] c = "K" -> 75 [] c = "N" -> 78 [] c = "R" -> 82 [] c = "T" -> 84
      [] c = "Y" -> 89 [] c = "*" -> 42 [] c = "-" -> 45
      [] c = "a" -> 97 [] c = "c" -> 99 [] c = "g" -> 103 [] c = "n" -> 110
      [] c = "r" -> 114 [] c = "t" -> 116
      [] c = "\\x00" -> 0 [] c = "\\x01" -> 1 [] c = "\\x02" -> 2
      [] c = "\\x03" -> 3 [] c = "\\x04" -> 4

\* str.upper() on one character
UpperChar(c) ==
    CASE c = "a" -> "A" [] c = "c" -> "C" [] c = "g" -> "G" [] c = "n" -> "N"
      [] c = "r" -> "R" [] c = "t" -> "T" [] c = "h" -> "H"
      [] OTHER -> c

\* str.upper()
Upper(s) == [k \in 1..Len(s) |-> UpperChar(s[k])]

\* what str.replace(old, new), for one-character old and new, makes of character c
ReplaceChar(c, old, new) == IF c = old THEN new ELSE c

----------------------------------------------------------------------------
(* normalise_chrom *)

has_prefix(x) == Len(x) >= 3 /\ SubSeq(x, 1, 3) = <<"c", "h", "r">>

RECURSIVE LStrip(_, _)
LStrip(s, set) ==
    IF s # <<>> /\ Head(s) \in set THEN LStrip(Tail(s), set) ELSE s

RECURSIVE RStrip(_, _)
RStrip(s, set) ==
    IF s # <<>> /\ s[Len(s)] \in set THEN RStrip(SubSeq(s, 1, Len(s) - 1), set) ELSE s

\* str.strip(chars): drops every leading and trailing character that is in chars
Strip(s, set) == RStrip(LStrip(s, set), set)

normalise_chrom(source, target) ==
    IF has_prefix(source) /\ ~has_prefix(target)
    THEN Strip(source, {"c", "h", "r"})
    ELSE IF ~has_prefix(source) /\ has_prefix(target)
    THEN <<"c", "h", "r">> \o source
    ELSE source

----------------------------------------------------------------------------
(* one_hot_encode *)

map == <<
    <<0, 0, 0, 0>>,
    <<1, 0, 0, 0>>,
    <<0, 1, 0, 0>>,
    <<0, 0, 1, 0>>,
    <<0, 0, 0, 1>> >>

\* the characters of the texts that are encoded
Alphabet ==
    {"A", "C", "G", "T", "N", "a", "c", "g", "t", "n", "B", "K", "R", "Y", "r", "*", "-"}

\* What `seq.upper().replace('A', '\x01').replace('C', '\x02')`, then
\* `.replace('G', '\x03').replace('T', '\x04').replace('N', '\x00')`, make of one
\* character of seq (each call maps the text character by character), and the row
\* `map[np.fromstring(seq, np.int8) % 5]` then has for it.
EncodeChar(c) ==
    LET c1 == ReplaceChar(ReplaceChar(UpperChar(c), "A", "\\x01"), "C", "\\x02")
        c2 == ReplaceChar(ReplaceChar(ReplaceChar(c1, "G", "\\x03"), "T", "\\x04"),
                          "N", "\\x00")
    IN map[(Ord(c2) % 5) + 1]

EncodeTable == [c \in Alphabet |-> EncodeChar(c)]

\* An ndarray is its shape and its elements.  The result has shape (len(seq), 4).
one_hot_encode(seq) ==
    [shape |-> <<Len(seq), 4>>,
     data |-> [k \in 1..Len(seq) |-> EncodeTable[seq[k]]]]

----------------------------------------------------------------------------
(* The collaborators: the reference genome (pyfaidx.Fasta) and the model   *)
(* ensemble (keras models).                                                *)

\* context length of the models: `wid = 10000+cov`, output = input - 10000
CL == 10000

\* length of every chromosome of the reference genome
ChromLen == 20000

GenomePattern == <<"A", "t", "G", "C", "N", "c", "T", "R">>

\* names of the reference genome's sequences, list(ann.ref_fasta.keys())
FastaKeys == << <<"1">>, <<"2">> >>

\* base at 1-based position p of chromosome chrom
Genome(chrom, p) ==
    GenomePattern[((IF chrom = <<"1">> THEN p ELSE p + 3) % Len(GenomePattern)) + 1]

\* ann.ref_fasta[chrom][start:end].seq
FastaFetch(chrom, start, end) ==
    IF \A k \in 1..Len(FastaKeys) : FastaKeys[k] # chrom
    THEN [exc |-> "KeyError", seq |-> <<>>]
    ELSE IF start < 0 \/ end > ChromLen
    THEN [exc |-> "ValueError", seq |-> <<>>]
    ELSE [exc |-> NoExc, seq |-> [k \in 1..(end - start) |-> Genome(chrom, start + k)]]

Dot(row, kern, c) ==
    row[1] * kern[1][c] + row[2] * kern[2][c] + row[3] * kern[3][c] + row[4] * kern[4][c]

\* models[m].predict(X): X of shape (batch, n, 4) gives (batch, n - CL, 3); output
\* position q reads the input rows at q + CL/2 and q + CL/2 + 1
predict(m, X) ==
    [shape |-> <<X.shape[1], X.shape[2] - CL, 3>>,
     data |-> [b \in 1..X.shape[1] |->
                 [q \in 1..(X.shape[2] - CL) |->
                     <<0,
                       m.bias[2] + Dot(X.data[b][q + CL \div 2], m.k0, 2)
                                 + Dot(X.data[b][q + CL \div 2 + 1], m.k1, 2),
                       m.bias[3] + Dot(X.data[b][q + CL \div 2], m.k0, 3)
                                 + Dot(X.data[b][q + CL \div 2 + 1], m.k1, 3)>>]]]

Mean5At(Y, b, q, c) ==
    (Y[1].data[b][q][c] + Y[2].data[b][q][c] + Y[3].data[b][q][c]
      + Y[4].data[b][q][c] + Y[5].data[b][q][c]) \div 5

\* np.mean(Y, axis=0) of five arrays of one shape
Mean5(Y) ==
    [shape |-> Y[1].shape,
     data |-> [b \in 1..Y[1].shape[1] |->
                 [q \in 1..Y[1].shape[2] |->
                     <<Mean5At(Y, b, q, 1), Mean5At(Y, b, q, 2), Mean5At(Y, b, q, 3)>>]]]

\* np.mean([models[m].predict(X) for m in range(5)], axis=0)
EnsembleMean(ms, X) == Mean5(<<predict(ms[1], X), predict(ms[2], X), predict(ms[3], X),
                               predict(ms[4], X), predict(ms[5], X)>>)

----------------------------------------------------------------------------
(* class Annotator *)

\* np.nonzero(self.chroms == chrom)[0], as the set of its (0-based) indices
NonzeroChrom(chrom) == {i \in 0..(Len(chroms) - 1) : chroms[i + 1] = chrom}

\* np.nonzero(self.tx_starts <= pos)[0]
NonzeroStart(pos) == {i \in 0..(Len(tx_starts) - 1) : tx_starts[i + 1] <= pos}

\* np.nonzero(pos <= self.tx_ends)[0]
NonzeroEnd(pos) == {i \in 0..(Len(tx_ends) - 1) : pos <= tx_ends[i + 1]}

\* the values of an array, as a set
Values(a) == {a[k] : k \in 1..Len(a)}

RECURSIVE SortedSeq(_)
\* the elements of a finite set of integers in ascending order
SortedSeq(S) ==
    IF S = {} THEN <<>>
    ELSE LET lo == CHOOSE x \in S : \A y \in S : x <= y
         IN <<lo>> \o SortedSeq(S \ {lo})

\* np.intersect1d(a, b): the sorted, unique values that are in both
intersect1d(a, b) == SortedSeq(a \cap b)

\* get_name_and_strand(chrom, pos).  noneCmp is what comparing an integer array
\* with None does in the numpy build at hand: "TypeError" or "False".
get_name_and_strand(chrom, pos, noneCmp) ==
    LET empty == [exc |-> NoExc, genes |-> <<>>, strands |-> <<>>, idxs |-> <<>>]
    IN IF Len(chroms) = 0 THEN [empty EXCEPT !.exc = "IndexError"]
       ELSE IF chrom = None THEN [empty EXCEPT !.exc = "AttributeError"]
       ELSE IF pos = None
       THEN (IF noneCmp = "TypeError" THEN [empty EXCEPT !.exc = "TypeError"] ELSE empty)
       ELSE LET c == normalise_chrom(Val(chrom), chroms[1])
                idxs == intersect1d(NonzeroChrom(c),
                                    Values(intersect1d(NonzeroStart(Val(pos)), NonzeroEnd(Val(pos)))))
            IN IF Len(idxs) >= 1
               THEN [exc |-> NoExc,
                     genes |-> [k \in 1..Len(idxs) |-> genes[idxs[k] + 1]],
                     strands |-> [k \in 1..Len(idxs) |-> strands[idxs[k] + 1]],
                     idxs |-> idxs]
               ELSE empty

get_pos_data(idx, pos) ==
    LET dist_tx_start == tx_starts[idx + 1] - pos
        dist_tx_end == tx_ends[idx + 1] - pos
    IN <<dist_tx_start, dist_tx_end>>

----------------------------------------------------------------------------
(* get_delta_scores *)

NON_REF == <<"<", "N", "O", "N", "_", "R", "E", "F", ">">>

DOT == <<".">>

\* wid = 10000+cov
wid(cov) == CL + cov

\* x[None, :] of an encoded sequence: shape (1, n, 4)
AddBatchAxis(x) == [shape |-> <<1>> \o x.shape, data |-> <<x.data>>]

\* X[:, ::-1, ::-1]: position axis and channel axis reversed
FlipInput(X) ==
    [shape |-> X.shape,
     data |-> [b \in 1..X.shape[1] |->
                 [k \in 1..X.shape[2] |->
                     [ch \in 1..X.shape[3] |->
                         X.data[b][X.shape[2] + 1 - k][X.shape[3] + 1 - ch]]]]]

\* Y[:, ::-1]: position axis reversed
FlipOutput(Y) ==
    [shape |-> Y.shape,
     data |-> [b \in 1..Y.shape[1] |->
                 [q \in 1..Y.shape[2] |-> Y.data[b][Y.shape[2] + 1 - q]]]]

\* np.zeros((1, n, 3))
Zeros(n) == [shape |-> <<1, n, 3>>, data |-> << [k \in 1..n |-> <<0, 0, 0>>] >>]

\* Y[:, i:j] for 0 <= i, j
SliceAx1(Y, i, j) ==
    LET lo == Min2(i, Y.shape[2])
        hi == Max2(lo, Min2(j, Y.shape[2]))
    IN [shape |-> <<Y.shape[1], hi - lo, Y.shape[3]>>,
        data |-> [b \in 1..Y.shape[1] |-> [k \in 1..(hi - lo) |-> Y.data[b][lo + k]]]]

\* Y[:, i:]
SliceFromAx1(Y, i) == SliceAx1(Y, i, Y.shape[2])

RECURSIVE MaxFrom(_, _, _, _)
\* the largest of column c of rows k..n of the rows v
MaxFrom(v, c, k, n) == IF k = n THEN v[k][c] ELSE Max2(v[k][c], MaxFrom(v, c, k + 1, n))

\* np.max(Y, axis=1)[:, None, :] of a Y with at least one row
MaxAx1(Y) ==
    [shape |-> <<Y.shape[1], 1, Y.shape[3]>>,
     data |-> [b \in 1..Y.shape[1] |->
                 << [c \in 1..Y.shape[3] |-> MaxFrom(Y.data[b], c, 1, Y.shape[2])] >>]]

\* np.concatenate([A, B, C], axis=1)
Concat1(A, B, C) ==
    [shape |-> <<A.shape[1], A.shape[2] + B.shape[2] + C.shape[2], A.shape[3]>>,
     data |-> [b \in 1..A.shape[1] |->
                 [k \in 1..(A.shape[2] + B.shape[2] + C.shape[2]) |->
                     IF k <= A.shape[2] THEN A.data[b][k]
                     ELSE IF k <= A.shape[2] + B.shape[2] THEN B.data[b][k - A.shape[2]]
                     ELSE C.data[b][k - A.shape[2] - B.shape[2]]]]]

RECURSIVE ArgMaxFrom_Last(_, _, _, _)
\* a scan that keeps the last of several equal largest values, not the first
ArgMaxFrom_Last(v, n, k, best) ==
    IF k > n THEN best
    ELSE ArgMaxFrom_Last(v, n, k + 1, IF v[k] >= v[best] THEN k ELSE best)

RECURSIVE ArgMaxFrom(_, _, _, _)
\* the scan of v.argmax(): best is the index of the largest value before index k
ArgMaxFrom(v, n, k, best) ==
    IF k > n THEN best
    ELSE ArgMaxFrom(v, n, k + 1, IF v[k] > v[best] THEN k ELSE best)

\* v.argmax() of a vector of n >= 1 values, 0-based
ArgMax(v, n) == ArgMaxFrom(v, n, 2, 1) - 1

\* "{:.2f}".format(v): v in units of 1/500, the result in hundredths
Fmt2(v) == IF v >= 0 THEN (v + 2) \div 5 ELSE -((2 - v) \div 5)

\* a realignment that collapses an insertion but adds no rows for a deletion
Reconcile_NoZeroRows(y_alt, cov, ref_len, alt_len, del_len) ==
    IF ref_len = 1 /\ alt_len > 1
    THEN Concat1(SliceAx1(y_alt, 0, cov \div 2),
                 MaxAx1(SliceAx1(y_alt, cov \div 2, cov \div 2 + alt_len)),
                 SliceFromAx1(y_alt, cov \div 2 + alt_len))
    ELSE y_alt

\* lines 148-159: the realignment of the alternate output for a deletion or an
\* insertion
Reconcile(y_alt, cov, ref_len, alt_len, del_len) ==
    IF ref_len > 1 /\ alt_len = 1
    THEN Concat1(SliceAx1(y_alt, 0, cov \div 2 + alt_len),
                 Zeros(del_len),
                 SliceFromAx1(y_alt, cov \div 2 + alt_len))
    ELSE IF ref_len = 1 /\ alt_len > 1
    THEN Concat1(SliceAx1(y_alt, 0, cov \div 2),
                 MaxAx1(SliceAx1(y_alt, cov \div 2, cov \div 2 + alt_len)),
                 SliceFromAx1(y_alt, cov \div 2 + alt_len))
    ELSE y_alt

\* the masked reference window
MaskedRef(seq, pad_size, w) ==
    Repeat("N", pad_size[1]) \o Slice(seq, pad_size[1], w - pad_size[2])
                             \o Repeat("N", pad_size[2])

\* the alternate window
Splice(x_ref, alt, ref_len, w) ==
    Slice(x_ref, 0, w \div 2) \o alt \o SliceFrom(x_ref, w \div 2 + ref_len)

\* padding computed as if tx_starts held the 0-based TX_START of the file
PadSize_ZeroBasedStart(dist, w) ==
    <<Max2(w \div 2 + dist[1] - 1, 0), Max2(w \div 2 - dist[2], 0)>>

PadSize(dist, w) == <<Max2(w \div 2 + dist[1], 0), Max2(w \div 2 - dist[2], 0)>>

\* "{}|{}|.|.|.|.|.|.|.|.".format(alt, gene).  A line is its allele, its gene name
\* and its eight further fields: four scores and four offsets, or None when each
\* of the eight is ".".
NullLine(alt, gene) == [alt |-> alt, gene |-> gene, fields |-> None]

\* lines 163-178: the four argmax positions and the formatted score line; y is
\* np.concatenate([y_ref, y_alt]), so y[0] is the reference, y[1] the alternate
ScoreLine(alt, gene, y, n, cov) ==
    LET pa == [k \in 1..n |-> y[2][k][2] - y[1][k][2]]
        na == [k \in 1..n |-> y[1][k][2] - y[2][k][2]]
        pd == [k \in 1..n |-> y[2][k][3] - y[1][k][3]]
        nd == [k \in 1..n |-> y[1][k][3] - y[2][k][3]]
        idx_pa == ArgMax(pa, n)
        idx_na == ArgMax(na, n)
        idx_pd == ArgMax(pd, n)
        idx_nd == ArgMax(nd, n)
    IN [alt |-> alt, gene |-> gene,
        fields |-> Some(<<Fmt2(pa[idx_pa + 1]), Fmt2(na[idx_na + 1]),
                          Fmt2(pd[idx_pd + 1]), Fmt2(nd[idx_nd + 1]),
                          idx_pa - cov \div 2, idx_na - cov \div 2,
                          idx_pd - cov \div 2, idx_nd - cov \div 2>>)]

\* lines 134-146: the ensemble mean for one window, with the strand handling
EnsembleOutput(x, strand) ==
    IF strand = "-"
    THEN FlipOutput(EnsembleMean(models, FlipInput(AddBatchAxis(one_hot_encode(x)))))
    ELSE EnsembleMean(models, AddBatchAxis(one_hot_encode(x)))

\* the values of a sequence given as a function of 1..n
Tuple(f, n) == SubSeq(f, 1, n)

\* np.concatenate([y_ref, y_alt]) of two arrays of one shape, batch size 1
Concat0(y_ref, y_alt) ==
    <<Tuple(y_ref.data[1], y_ref.shape[2]), Tuple(y_alt.data[1], y_alt.shape[2])>>

\* line 161 on: the two outputs are stacked (a ValueError if their shapes differ
\* after the batch axis) and reduced to a score line (argmax of an empty vector
\* is a ValueError)
ScoreStacked(alt, gene, idx, cov, pad_size, x_ref, x_alt_len, y) ==
    LET seen == [alt |-> alt, gene |-> gene, idx |-> idx, pad_size |-> pad_size,
                 x_ref |-> x_ref, x_alt_len |-> x_alt_len,
                 y_ref |-> y[1], y_alt |-> y[2]]
    IN IF Len(y[1]) # Len(y[2]) \/ Len(y[1]) = 0
       THEN [kind |-> "raise", exc |-> "ValueError", seen |-> seen]
       ELSE [kind |-> "scored", line |-> ScoreLine(alt, gene, y, Len(y[1]), cov),
             seen |-> seen]

ScoreOutputs(alt, gene, idx, cov, pad_size, x_ref, x_alt_len, y_ref, y_alt) ==
    ScoreStacked(alt, gene, idx, cov, pad_size, x_ref, x_alt_len, Concat0(y_ref, y_alt))

\* lines 134-159: both windows are encoded and scored, the alternate output realigned
ScoreWindows(alt, gene, idx, strand, cov, ref_len, pad_size, x_ref, x_alt) ==
    LET alt_len == Len(alt)
        del_len == Max2(ref_len - alt_len, 0)
    IN ScoreOutputs(alt, gene, idx, cov, pad_size, x_ref, Len(x_alt),
                    EnsembleOutput(x_ref, strand),
                    Reconcile(EnsembleOutput(x_alt, strand), cov, ref_len, alt_len, del_len))

\* lines 125-132: the two windows
BuildWindows(alt, gene, idx, strand, cov, ref_len, pad_size, w, x_ref) ==
    ScoreWindows(alt, gene, idx, strand, cov, ref_len, pad_size, x_ref,
                 Splice(x_ref, alt, ref_len, w))

\* a loop body that tests for two multi-base alleles before it tests for a sentinel
LoopBody_NullBeforeSentinel(rec, cov, seq, lk, alt, i) ==
    IF Len(rec.ref) > 1 /\ Len(alt) > 1
    THEN [kind |-> "null", line |-> NullLine(alt, lk.genes[i])]
    ELSE IF alt = NON_REF \/ alt = DOT
    THEN [kind |-> "continue"]
    ELSE
    LET w == wid(cov)
        dist == get_pos_data(lk.idxs[i], rec.pos)
        pad_size == PadSize(dist, w)
        ref_len == Len(rec.ref)
    IN BuildWindows(alt, lk.genes[i], lk.idxs[i], lk.strands[i], cov, ref_len, pad_size, w,
                    MaskedRef(seq, pad_size, w))

\* one pass of the loop body (lines 118-178) for alternate allele alt and the
\* i-th overlapping gene
LoopBody(rec, cov, seq, lk, alt, i) ==
    IF alt = NON_REF \/ alt = DOT
    THEN [kind |-> "continue"]
    ELSE IF Len(rec.ref) > 1 /\ Len(alt) > 1
    THEN [kind |-> "null", line |-> NullLine(alt, lk.genes[i])]
    ELSE
    LET w == wid(cov)
        dist == get_pos_data(lk.idxs[i], rec.pos)
        pad_size == PadSize(dist, w)
        ref_len == Len(rec.ref)
    IN BuildWindows(alt, lk.genes[i], lk.idxs[i], lk.strands[i], cov, ref_len, pad_size, w,
                    MaskedRef(seq, pad_size, w))

RECURSIVE Loop(_, _, _, _, _, _)
\* the two nested loops from pass k on (pass k is allele k \div n, gene k % n, 0-based),
\* acc being what the passes before it left
Loop(rec, cov, seq, lk, k, acc) ==
    LET n == Len(lk.idxs)
    IN IF k >= Len(rec.alts) * n THEN acc
       ELSE LET r == LoopBody(rec, cov, seq, lk, rec.alts[(k \div n) + 1], (k % n) + 1)
            IN CASE r.kind = "continue" -> Loop(rec, cov, seq, lk, k + 1, acc)
                 [] r.kind = "null" ->
                      Loop(rec, cov, seq, lk, k + 1,
                           [acc EXCEPT !.delta_scores = Append(@, r.line)])
                 [] r.kind = "scored" ->
                      Loop(rec, cov, seq, lk, k + 1,
                           [acc EXCEPT !.delta_scores = Append(@, r.line),
                                       !.pairs = Append(@, r.seen),
                                       !.used = @ \cup {"models"}])
                 [] r.kind = "raise" ->
                      [acc EXCEPT !.exc = r.exc, !.delta_scores = <<>>,
                                  !.pairs = Append(@, r.seen),
                                  !.used = @ \cup {"models"}]

get_delta_scores(record, cov, noneCmp) ==
    LET w == wid(cov)
        base == [exc |-> NoExc, log |-> NoLog, delta_scores |-> <<>>, pairs |-> <<>>,
                 used |-> {}, seq |-> <<>>]
    IN IF record.alts = None
       THEN [base EXCEPT !.log = "bad input"]
       ELSE
       LET lk == get_name_and_strand(record.chrom, record.pos, noneCmp)
       IN IF lk.exc # NoExc
          THEN [base EXCEPT !.exc = lk.exc, !.used = {"annotation"}]
          ELSE IF Len(lk.idxs) = 0
          THEN [base EXCEPT !.used = {"annotation"}]
          ELSE
          LET chrom == normalise_chrom(Val(record.chrom), FastaKeys[1])
              pos == Val(record.pos)
              f == FastaFetch(chrom, pos - w \div 2 - 1, pos + w \div 2)
              got == [base EXCEPT !.used = {"annotation", "fasta"}]
          IN IF f.exc = "KeyError"
             THEN [got EXCEPT !.exc = "KeyError"]
             ELSE IF f.exc # NoExc
             THEN [got EXCEPT !.log = "fasta issue"]
             ELSE IF record.ref = None
             THEN [got EXCEPT !.exc = "TypeError"]
             ELSE IF Upper(Slice(f.seq, w \div 2, w \div 2 + Len(Val(record.ref))))
                     # Val(record.ref)
             THEN [got EXCEPT !.log = "ref issue", !.seq = f.seq]
             ELSE Loop([chrom |-> Val(record.chrom), pos |-> pos, ref |-> Val(record.ref),
                        alts |-> Val(record.alts)],
                       cov, f.seq, lk, 0, [got EXCEPT !.seq = f.seq])

----------------------------------------------------------------------------
(* calculate_importance_score *)

\* N = 1001
N == 1001

AddRows(r1, r2) == <<r1[1] + r2[1], r1[2] + r2[2], r1[3] + r2[3]>>

\* A + B of two arrays of shape (batch, n, 3)
Add(A, B) ==
    [shape |-> A.shape,
     data |-> [b \in 1..A.shape[1] |->
                 [q \in 1..A.shape[2] |-> AddRows(A.data[b][q], B.data[b][q])]]]

DivRow(r, d) == <<r[1] \div d, r[2] \div d, r[3] \div d>>

\* A / d, for an A whose values are multiples of d
Div(A, d) ==
    [shape |-> A.shape,
     data |-> [b \in 1..A.shape[1] |-> [q \in 1..A.shape[2] |-> DivRow(A.data[b][q], d)]]]

\* Y[None, :]
AddLeadingAxis(Y) == [shape |-> <<1>> \o Y.shape, data |-> <<Y.data>>]

\* the copy of X with X[:, p] = row (p 0-based)
SetRow(X, p, row) ==
    [shape |-> X.shape,
     data |-> [b \in 1..X.shape[1] |->
                 [k \in 1..X.shape[2] |-> IF k = p + 1 THEN row ELSE X.data[b][k]]]]

\* I0..I4 of lines 211-215 for model m: the sum of its predictions for the four
\* counterfactual tensors
CounterfactualSum(m, Xa, Xc, Xg, Xt) ==
    Add(Add(Add(predict(m, Xa), predict(m, Xc)), predict(m, Xg)), predict(m, Xt))

\* lines 201-219 for pass i: the sum I0+I1+I2+I3+I4, divided by 5 where the
\* code divides by 20 (the values are kept in quarters of the unit of Y)
CounterfactualMean(X, ms, i) ==
    LET p == (X.shape[2] - N) \div 2 + i
        Xa == SetRow(X, p, <<1, 0, 0, 0>>)
        Xc == SetRow(X, p, <<0, 1, 0, 0>>)
        Xg == SetRow(X, p, <<0, 0, 1, 0>>)
        Xt == SetRow(X, p, <<0, 0, 0, 1>>)
    IN AddLeadingAxis(
           Div(Add(Add(Add(Add(CounterfactualSum(ms[1], Xa, Xc, Xg, Xt),
                               CounterfactualSum(ms[2], Xa, Xc, Xg, Xt)),
                           CounterfactualSum(ms[3], Xa, Xc, Xg, Xt)),
                       CounterfactualSum(ms[4], Xa, Xc, Xg, Xt)),
                   CounterfactualSum(ms[5], Xa, Xc, Xg, Xt)), 5))

\* Y[t] - Ii[t] for one position: four times the row of Y less the row of Ii
ScoreRow(y, ii) == <<4 * y[1] - ii[1], 4 * y[2] - ii[2], 4 * y[3] - ii[3]>>

\* calculate_importance_score(X, models, t) for X of shape (batch, W, 4): Y and
\* every Ii get a leading axis of length 1, which Y[t] and Ii[t] index
calculate_importance_score(X, ms, t) ==
    LET Y == AddLeadingAxis(EnsembleMean(ms, X))
        L == Y.shape[3]
    IN IF t >= Y.shape[1] \/ t < -Y.shape[1]
       THEN [exc |-> "IndexError"]
       ELSE [exc |-> NoExc,
             I |-> [shape |-> <<N, X.shape[1], L, 3>>,
                    data |-> [i \in 1..N |->
                                [b \in 1..X.shape[1] |->
                                    [q \in 1..L |->
                                        ScoreRow(Y.data[1][b][q],
                                                 CounterfactualMean(X, ms, i - 1).data[1][b][q])]]]]]

----------------------------------------------------------------------------
(* The environment: annotation files, model ensembles, and the calls made. *)

\* largest cov a call is made with
MaxCov == 3

\* rows of an annotation file: #NAME, CHROM, STRAND, TX_START (0-based), TX_END
Row(name, chrom, strand, tx_start, tx_end) ==
    [name |-> name, chrom |-> chrom, strand |-> strand, tx_start |-> tx_start,
     tx_end |-> tx_end]

AnnotationFiles ==
    { <<>>,
      << Row("GENEA", <<"1">>, "+", 1999, 12002),
         Row("GENEB", <<"1">>, "-", 6999, 7001),
         Row("GENEC", <<"2">>, "+", 0, 20000) >>,
      << Row("GENEC", <<"c", "h", "r", "2">>, "-", 0, 20000),
         Row("GENEB", <<"c", "h", "r", "1">>, "+", 6999, 7001),
         Row("GENEA", <<"c", "h", "r", "1">>, "-", 1999, 12002) >> }

\* a model of the ensemble: per-class bias, and the weights of the two input rows
\* an output position reads (channel x class); every weight is a multiple of 5
MkModel(ba, bd, wa, wd, va) ==
    [bias |-> <<0, ba, bd>>,
     k0 |-> [ch \in 1..4 |-> <<0, wa[ch], wd[ch]>>],
     k1 |-> [ch \in 1..4 |-> <<0, va[ch], 0>>]]

Ensembles ==
    { << MkModel(50, 50, <<0, 0, 0, 0>>, <<0, 0, 0, 0>>, <<0, 0, 0, 0>>),
         MkModel(50, 50, <<0, 0, 0, 0>>, <<0, 0, 0, 0>>, <<0, 0, 0, 0>>),
         MkModel(50, 50, <<0, 0, 0, 0>>, <<0, 0, 0, 0>>, <<0, 0, 0, 0>>),
         MkModel(50, 50, <<0, 0, 0, 0>>, <<0, 0, 0, 0>>, <<0, 0, 0, 0>>),
         MkModel(50, 50, <<0, 0, 0, 0>>, <<0, 0, 0, 0>>, <<0, 0, 0, 0>>) >>,
      << MkModel(10, 20, <<5, 100, 250, 40>>, <<300, 15, 5, 60>>, <<0, 35, 10, 5>>),
         MkModel(15, 20, <<5, 105, 240, 40>>, <<310, 15, 0, 60>>, <<5, 35, 10, 5>>),
         MkModel(10, 25, <<0, 100, 255, 45>>, <<300, 10, 5, 65>>, <<0, 30, 10, 0>>),
         MkModel(10, 20, <<5, 110, 250, 40>>, <<295, 15, 5, 60>>, <<0, 35, 15, 5>>),
         MkModel(20, 20, <<5, 100, 245, 35>>, <<300, 20, 5, 55>>, <<0, 40, 10, 5>>) >> }

\* Annotator.__init__: the columns of the annotation file, TX_START plus one
Init ==
    \E file \in AnnotationFiles, ens \in Ensembles :
        /\ genes = [k \in 1..Len(file) |-> file[k].name]
        /\ chroms = [k \in 1..Len(file) |-> file[k].chrom]
        /\ strands = [k \in 1..Len(file) |-> file[k].strand]
        /\ tx_starts = [k \in 1..Len(file) |-> file[k].tx_start + 1]
        /\ tx_ends = [k \in 1..Len(file) |-> file[k].tx_end]
        /\ models = ens
        /\ pc = "idle"
        /\ call = [op |-> "none"]
        /\ ret = [exc |-> NoExc]

QueryChroms == { <<"1">>, <<"2">>, <<"c", "h", "r", "1">>, <<"c", "h", "r", "2">>, <<"X">> }

QueryPositions == {1, 1999, 2000, 6999, 7000, 7001, 7002, 12002, 12003, 19000, 20000, 20001}

RefAlleles == { <<"A">>, <<"a">>, <<"A", "T">>, <<"A", "t">>, <<"A", "T", "G">>, <<"T">>, <<"C">> }

AltLists ==
    { << <<"G">> >>,
      << <<"A">> >>,
      << DOT >>,
      << <<"G">>, NON_REF, <<"G", "C", "A">> >>,
      << <<"T", "C">>, <<"c">> >>,
      << <<"G", "C">>, DOT, <<"T">> >> }

\* the records the calls are made with: fields present or None
Records ==
    [chrom : {Some(<<"1">>)},
     pos : {Some(7000), Some(7001)},
     ref : {Some(r) : r \in RefAlleles},
     alts : {Some(a) : a \in AltLists}]
    \cup
    [chrom : {Some(<<"c", "h", "r", "1">>)},
     pos : {Some(7000), Some(12000)},
     ref : {Some(<<"A">>), Some(<<"a">>)},
     alts : {Some(<< <<"G">>, NON_REF, <<"G", "C", "A">> >>)}]
    \cup
    [chrom : {Some(<<"2">>), Some(<<"X">>), None},
     pos : {Some(7000), Some(19000), Some(12500), None},
     ref : {Some(<<"C">>), None},
     alts : {Some(<< <<"G">> >>), None}]

\* what comparing an integer array with None may do, where it matters
NoneCmps(record) == IF record.pos = None THEN {"TypeError", "False"} ELSE {"False"}

\* The models take an input of at least CL positions: a call is made only with a
\* deletion of at most cov bases.
ModelContract(record, cov) == record.ref # None => Len(Val(record.ref)) - 1 <= cov

CallGetNameAndStrand ==
    /\ pc = "idle"
    /\ \E chrom \in QueryChroms, pos \in QueryPositions :
          /\ call' = [op |-> "get_name_and_strand", chrom |-> chrom, pos |-> pos]
          /\ ret' = get_name_and_strand(Some(chrom), Some(pos), "TypeError")
    /\ pc' = "done"
    /\ UNCHANGED annVars

CallGetDeltaScores ==
    /\ pc = "idle"
    /\ \E record \in Records, cov \in 1..MaxCov :
       \E noneCmp \in NoneCmps(record) :
          /\ ModelContract(record, cov)
          /\ call' = [op |-> "get_delta_scores", record |-> record, cov |-> cov,
                      noneCmp |-> noneCmp]
          /\ ret' = get_delta_scores(record, cov, noneCmp)
    /\ pc' = "done"
    /\ UNCHANGED annVars

\* the caller takes the result; the Annotator is ready for the next call
Return ==
    /\ pc = "done"
    /\ pc' = "idle"
    /\ call' = [op |-> "none"]
    /\ ret' = [exc |-> NoExc]
    /\ UNCHANGED annVars

Next == CallGetNameAndStrand \/ CallGetDeltaScores \/ Return

Spec == Init /\ [][Next]_vars

----------------------------------------------------------------------------
(* normalise_chrom and one_hot_encode called on their own *)

\* longest chromosome name normalise_chrom is called with
MaxNameLen == 4

\* longest text one_hot_encode is called with
MaxSeqLen == 2

NameChars == {"c", "h", "r", "1"}

\* the texts of 0..n characters of the set chars
Texts(chars, n) == UNION {[1..k -> chars] : k \in 0..n}

Targets == { <<"1">>, <<"c", "h", "r", "1">>, <<"X">>, <<"c", "h", "r">> }

\* no Annotator is built for a call of a module-level function
InitFunctions ==
    /\ genes = <<>>
    /\ chroms = <<>>
    /\ strands = <<>>
    /\ tx_starts = <<>>
    /\ tx_ends = <<>>
    /\ models = <<>>
    /\ pc = "idle"
    /\ call = [op |-> "none"]
    /\ ret = [exc |-> NoExc]

CallNormaliseChrom ==
    /\ pc = "idle"
    /\ \E source \in Texts(NameChars, MaxNameLen), target \in Targets :
          /\ call' = [op |-> "normalise_chrom", source |-> source, target |-> target]
          /\ ret' = [exc |-> NoExc, value |-> normalise_chrom(source, target)]
    /\ pc' = "done"
    /\ UNCHANGED annVars

CallOneHotEncode ==
    /\ pc = "idle"
    /\ \E seq \in Texts(Alphabet, MaxSeqLen) :
          /\ call' = [op |-> "one_hot_encode", seq |-> seq]
          /\ ret' = [exc |-> NoExc, value |-> one_hot_encode(seq)]
    /\ pc' = "done"
    /\ UNCHANGED annVars

NextChrom == CallNormaliseChrom \/ Return

SpecChrom == InitFunctions /\ [][NextChrom]_vars

NextEncode == CallOneHotEncode \/ Return

SpecEncode == InitFunctions /\ [][NextEncode]_vars

----------------------------------------------------------------------------
(* calculate_importance_score called with the encoded window of a locus *)

\* first positions (0-based) of the windows taken from chromosome "1"
WindowStarts == {0, 2001}

\* largest target position t a call is made with
MaxT == 8

InitImportance ==
    \E ens \in Ensembles :
        /\ genes = <<>>
        /\ chroms = <<>>
        /\ strands = <<>>
        /\ tx_starts = <<>>
        /\ tx_ends = <<>>
        /\ models = ens
        /\ pc = "idle"
        /\ call = [op |-> "none"]
        /\ ret = [exc |-> NoExc]

\* X is the encoding of a window of CL + L bases, so the outputs have L positions
CallCalculateImportanceScore ==
    /\ pc = "idle"
    /\ \E start \in WindowStarts, L \in 1..MaxCov, t \in 0..MaxT :
          /\ call' = [op |-> "calculate_importance_score", start |-> start, L |-> L,
                      t |-> t]
          /\ ret' = calculate_importance_score(
                        AddBatchAxis(one_hot_encode(
                            FastaFetch(<<"1">>, start, start + CL + L).seq)),
                        models, t)
    /\ pc' = "done"
    /\ UNCHANGED annVars

NextImportance == CallCalculateImportanceScore \/ Return

SpecImportance == InitImportance /\ [][NextImportance]_vars

----------------------------------------------------------------------------
(* C2, C3 *)

\* C2: normalise_chrom(source, target) is source without exactly its leading
\* three characters "chr" when source starts with "chr" and target does not, is
\* "chr" followed by source when source does not start with "chr" and target
\* does, and is source in every other case.
C2_ExactPrefix ==
    (pc = "done" /\ call.op = "normalise_chrom") =>
        ret.value =
            (IF has_prefix(call.source) /\ ~has_prefix(call.target)
             THEN SubSeq(call.source, 4, Len(call.source))
             ELSE IF ~has_prefix(call.source) /\ has_prefix(call.target)
             THEN <<"c", "h", "r">> \o call.source
             ELSE call.source)

\* C3: every row of one_hot_encode(seq) is the indicator row of A, C, G or T
\* (either case), and the all-zero row for N, n and every other symbol.
C3_OtherSymbolsZero ==
    (pc = "done" /\ call.op = "one_hot_encode") =>
        /\ ret.value.shape = <<Len(call.seq), 4>>
        /\ \A k \in 1..Len(call.seq) :
              ret.value.data[k] =
                  (CASE call.seq[k] \in {"A", "a"} -> <<1, 0, 0, 0>>
                     [] call.seq[k] \in {"C", "c"} -> <<0, 1, 0, 0>>
                     [] call.seq[k] \in {"G", "g"} -> <<0, 0, 1, 0>>
                     [] call.seq[k] \in {"T", "t"} -> <<0, 0, 0, 1>>
                     [] OTHER -> <<0, 0, 0, 0>>)

----------------------------------------------------------------------------
(* C1, C4, C5: the lookup and the validation of a record *)

\* a call of get_name_and_strand has returned or raised
LookupDone == pc = "done" /\ call.op = "get_name_and_strand"

\* a call of get_delta_scores has returned or raised
ScoresDone == pc = "done" /\ call.op = "get_delta_scores"

\* C1: get_name_and_strand(chrom, pos) raises nothing; record r's index is among
\* the returned indices exactly if r's chromosome is the normalised query
\* chromosome and tx_starts[r] <= pos <= tx_ends[r]; the indices are ascending and
\* the names and strands are those of the indices (all three empty when no record
\* qualifies).
C1_LookupExact ==
    LookupDone =>
        /\ ret.exc = NoExc
        /\ \A r \in 0..(Len(chroms) - 1) :
              (\E k \in 1..Len(ret.idxs) : ret.idxs[k] = r)
              <=> /\ chroms[r + 1] = normalise_chrom(call.chrom, chroms[1])
                  /\ tx_starts[r + 1] <= call.pos
                  /\ call.pos <= tx_ends[r + 1]
        /\ \A k \in 1..(Len(ret.idxs) - 1) : ret.idxs[k] < ret.idxs[k + 1]
        /\ Len(ret.genes) = Len(ret.idxs)
        /\ Len(ret.strands) = Len(ret.idxs)
        /\ \A k \in 1..Len(ret.idxs) :
              /\ ret.genes[k] = genes[ret.idxs[k] + 1]
              /\ ret.strands[k] = strands[ret.idxs[k] + 1]

\* the statement of C1 for an Annotator whose annotation table has records
C1_LookupExactNonEmpty == Len(chroms) > 0 => C1_LookupExact

\* every field of the record of the call is present
WellFormed ==
    /\ call.record.chrom # None
    /\ call.record.pos # None
    /\ call.record.ref # None
    /\ call.record.alts # None

\* the call had a well-formed record, found a gene, and got its window
ReachedRefCheck == ScoresDone /\ WellFormed /\ ret.seq # <<>>

\* the len(ref) bases of the window of the call from its centre on
CentreBases ==
    Slice(ret.seq, wid(call.cov) \div 2,
          wid(call.cov) \div 2 + Len(Val(call.record.ref)))

\* C4: a well-formed record with a gene and a window is skipped as a reference
\* mismatch, with no score line, exactly if the centre bases of the window and
\* the declared reference allele differ when compared without regard to case.
C4_CaseInsensitiveRef ==
    ReachedRefCheck =>
        /\ (ret.log = "ref issue") <=> (Upper(CentreBases) # Upper(Val(call.record.ref)))
        /\ ret.log = "ref issue" => ret.delta_scores = <<>>

\* exactly one field of the record of the call is None
OneFieldMissing ==
    Cardinality({f \in {"chrom", "pos", "ref", "alts"} : call.record[f] = None}) = 1

\* C5: get_delta_scores with a record of which one of the chromosome, the
\* position, the reference allele and the alternate alleles is None, and an
\* Annotator whose annotation table has records, returns an empty list of score
\* lines and raises no exception.
C5_MissingFieldSkipped ==
    (ScoresDone /\ OneFieldMissing /\ Len(chroms) > 0) =>
        (ret.exc = NoExc /\ ret.delta_scores = <<>>)

----------------------------------------------------------------------------
(* C6 - C9: the score lines of a record that passes validation *)

\* the record of the call passed validation: well-formed, a gene found, the window
\* fetched, the reference allele matching
Validated == ReachedRefCheck /\ ret.log = NoLog

\* the names of the genes the lookup of the call returned
FoundGenes ==
    get_name_and_strand(call.record.chrom, call.record.pos, call.noneCmp).genes

IsSentinel(alt) == alt = DOT \/ alt = NON_REF

NotSentinelPair(p) == ~IsSentinel(p[1])

\* the (allele, gene) pairs of the call in allele order and, within an allele, in
\* gene order, those of a sentinel allele left out
ExpectedPairs ==
    LET alts == Val(call.record.alts)
        n == Len(FoundGenes)
    IN SelectSeq([k \in 1..(Len(alts) * n) |->
                     <<alts[((k - 1) \div n) + 1], FoundGenes[((k - 1) % n) + 1]>>],
                 NotSentinelPair)

C7_InsertionReached ==
    /\ Validated
    /\ Len(Val(call.record.ref)) = 1
    /\ \E k \in 1..Len(ret.pairs) :
          Len(ret.pairs[k].alt) = 3 /\ strands[ret.pairs[k].idx + 1] = "-"

IsScored(line) == line.fields # None

\* the lines of the call that carry scores, in order: one for each scored pair
ScoredLines == SelectSeq(ret.delta_scores, IsScored)

\* the difference vector of quantity j of scored pair k: acceptor gain (1),
\* acceptor loss (2), donor gain (3), donor loss (4)
Diff(k, j) ==
    LET yr == ret.pairs[k].y_ref
        ya == ret.pairs[k].y_alt
        c == IF j <= 2 THEN 2 ELSE 3
    IN [q \in 1..Len(yr) |->
           IF j \in {1, 3} THEN ya[q][c] - yr[q][c] ELSE yr[q][c] - ya[q][c]]

\* the lowest (0-based) index at which the vector d has its maximum
FirstMax(d) ==
    (CHOOSE p \in 1..Len(d) : /\ \A q \in 1..Len(d) : d[q] <= d[p]
                              /\ \A q \in 1..(p - 1) : d[q] < d[p]) - 1

\* C8: for each of the four quantities of a scored pair, the reported offset is
\* p - cov//2 with p the lowest index of the cov positions at which the
\* difference has its maximum, the offset lies in [-(cov//2), cov//2], and the
\* reported score is the difference at p (to two decimals).
C8_ArgmaxFirst ==
    Validated =>
        /\ Len(ScoredLines) = Len(ret.pairs)
        /\ \A k \in 1..Len(ret.pairs) : \A j \in 1..4 :
              /\ Len(Diff(k, j)) = call.cov
              /\ Val(ScoredLines[k].fields)[4 + j] = FirstMax(Diff(k, j)) - call.cov \div 2
              /\ Val(ScoredLines[k].fields)[4 + j] >= -(call.cov \div 2)
              /\ Val(ScoredLines[k].fields)[4 + j] <= call.cov \div 2
              /\ Val(ScoredLines[k].fields)[j] = Fmt2(Diff(k, j)[FirstMax(Diff(k, j)) + 1])

\* a scored pair one of whose differences has its maximum at two positions, the
\* first of them not the first position
C8_Witness ==
    /\ Validated
    /\ \E k \in 1..Len(ret.pairs) : \E j \in 1..4 :
          /\ FirstMax(Diff(k, j)) > 0
          /\ \E q \in (FirstMax(Diff(k, j)) + 2)..call.cov :
                Diff(k, j)[q] = Diff(k, j)[FirstMax(Diff(k, j)) + 1]

\* the masked window the claim describes, for the gene with index idx
ExpectedMasked(idx) ==
    LET w == wid(call.cov)
        pos == Val(call.record.pos)
    IN [k \in 1..w |->
           IF pos - w \div 2 + (k - 1) < tx_starts[idx + 1]
              \/ pos - w \div 2 + (k - 1) > tx_ends[idx + 1]
           THEN "N" ELSE ret.seq[k]]

\* C9: for odd cov and every overlapping gene that is scored, the masked window
\* x_ref has W = 10000 + cov bases, the base at index k being "N" when position
\* pos - W//2 + k is outside [tx_start, tx_end] and the base of the fetched
\* sequence otherwise; the base at the centre is never masked.
C9_MaskedWindow ==
    (Validated /\ call.cov % 2 = 1) =>
        \A k \in 1..Len(ret.pairs) :
            /\ Len(ret.pairs[k].x_ref) = wid(call.cov)
            /\ ret.pairs[k].x_ref = ExpectedMasked(ret.pairs[k].idx)
            /\ ret.pairs[k].x_ref[wid(call.cov) \div 2 + 1]
                  = ret.seq[wid(call.cov) \div 2 + 1]

\* an odd cov and a scored gene whose window is masked on both sides
C9_Witness ==
    /\ Validated
    /\ call.cov % 2 = 1
    /\ \E k \in 1..Len(ret.pairs) :
          ret.pairs[k].pad_size[1] > 0 /\ ret.pairs[k].pad_size[2] > 0

----------------------------------------------------------------------------
(* C10 *)

\* C10: calculate_importance_score(X, models, t), for X of shape (batch, W, 4)
\* with outputs of L positions and any t with 0 <= t < L, completes without an
\* indexing error and returns a map of shape (1001, batch, L, 3).
C10_EveryTargetCompletes ==
    (pc = "done" /\ call.op = "calculate_importance_score"
       /\ 0 <= call.t /\ call.t < call.L) =>
        /\ ret.exc = NoExc
        /\ ret.I.shape = <<N, 1, call.L, 3>>

====
